---------------------------- MODULE Spec2Model ----------------------------
(***************************************************************************)
(* ascii-in-the-park (src/main.rs): an image is painted as a grid of       *)
(* characters, either by bucketing luminance (paint_values) or by matching *)
(* 10x20 tiles against rasterized glyphs (paint_flat), the glyphs being    *)
(* cached in memory and in the directory cache/ (generate_char_imgs).      *)
(*                                                                         *)
(* A process is one run of paint().  Characters are Unicode code points,   *)
(* a palette (&str) is a sequence of code points, and its byte length is   *)
(* the sum of the UTF-8 lengths.  f32 divisions are computed bit-exactly   *)
(* (24-bit significand, round to nearest even).                            *)
(*                                                                         *)
(* What lies outside main.rs is modelled by what the call does: images are *)
(* grayscale, so to_luma8 and invert act on one channel; Nearest samples   *)
(* the source pixel under the centre of the output pixel; crop_imm cuts    *)
(* the rectangle to the image; a PNG written through decodes to the bitmap *)
(* saved, any other file fails to decode; DefaultHasher gives distinct     *)
(* keys distinct file names; the font is a table from characters to a few  *)
(* bitmaps.  cols stays far below the overflow of cols * tile_w in u32.    *)
(***************************************************************************)
EXTENDS Integers, Sequences, FiniteSets, TLC

VARIABLES
    args,            \* per process: Args {mode, cols, invert} and the palette string
    img,             \* per process: the decoded image (width, height, pixel source)
    font,            \* the embedded font: code point -> glyph bitmap
    disk,            \* cache/<hash>.png per glyph key: "nofile", "partial" or a bitmap
    pc,              \* per process: position in paint()
    char_img_cache,  \* per process: the memory tier, a set of <<character, bitmap>>
    char_imgs,       \* per process: the bitmaps generate_char_imgs has collected
    opened,          \* per process: the result of the last image::open
    tile_i,          \* per process: the loop variable i of paint_flat
    char_matrix,     \* per process: the characters painted so far
    result,          \* per process: the String paint() returns
    writes           \* per glyph key: how often char_img.save() created the file

vars == <<args, img, font, disk, pc, char_img_cache, char_imgs, opened,
          tile_i, char_matrix, result, writes>>

--------------------------------------------------------------------------
(* Bounds of the model *)

NProcs == 2          \* processes sharing the directory cache/
MaxCols == 3         \* largest --cols
MaxImgW == 3         \* largest image width in template-matching runs
MaxImgH == 10        \* largest image height in template-matching runs
MaxValDim == 2       \* largest image side in values runs (beside the 10x10 scenario)
MaxValCols == 3      \* largest --cols in values runs
MaxMatchCols == 2    \* largest --cols in the matching runs

Procs == 1..NProcs

--------------------------------------------------------------------------
(* Program constants *)

tile_w == 10
line_height == 2
tile_h == tile_w * line_height
Sentinel == 95       \* '_'
Newline == 10        \* '\n'

PALETTE ==
    << <<32, 46, 45, 61, 43, 42, 35, 37, 64>>,
       <<46, 44, 96, 126, 124, 92, 47, 43, 88, 35>>,
       [k \in 1..256 |-> 10239 + k],
       <<32, 33, 64, 35, 36, 37, 94, 38, 42, 40, 41, 45, 61, 95, 43, 96, 126,
         113, 119, 102, 112, 103, 106, 108, 117, 121, 59, 91, 93, 97, 114,
         115, 116, 100, 104, 110, 101, 105, 111, 39, 122, 120, 99, 118, 98,
         107, 109, 44, 46, 47, 92, 124, 81, 87, 70, 80, 71, 74, 76, 85, 89,
         58, 123, 125, 65, 82, 83, 84, 68, 72, 78, 69, 73, 79, 34, 90, 88,
         67, 86, 66, 75, 77, 60, 62, 63>> >>

--------------------------------------------------------------------------
(* Strings *)

\* The UTF-8 length of a code point.
Utf8Len(c) ==
    IF c < 128 THEN 1 ELSE IF c < 2048 THEN 2 ELSE IF c < 65536 THEN 3 ELSE 4

\* The bytes of s[lo..hi], summed by halves.
RECURSIVE SumUtf8(_, _, _)
SumUtf8(s, lo, hi) ==
    IF lo > hi THEN 0
    ELSE IF lo = hi THEN Utf8Len(s[lo])
    ELSE LET mid == (lo + hi) \div 2
         IN  SumUtf8(s, lo, mid) + SumUtf8(s, mid + 1, hi)

\* str::len(): the length in bytes.
StrLen(s) == SumUtf8(s, 1, Len(s))

\* str::chars().count(): the length in characters.
CharCount(s) == Len(s)

CharsOf(s) == {s[k] : k \in 1..Len(s)}

--------------------------------------------------------------------------
(* f32 arithmetic.  A positive f32 is <<m, e>> with 2^23 <= m < 2^24 and   *)
(* value m * 2^e; zero is <<0, 0>>.                                        *)

Pow23 == 8388608
Pow24 == 16777216

RECURSIVE Pow2(_)
Pow2(n) == IF n = 0 THEN 1 ELSE 2 * Pow2(n - 1)

\* Long division a / b, one quotient bit per step, until q has 24 bits.
RECURSIVE DivBits(_, _, _, _)
DivBits(q, r, b, e) ==
    IF q >= Pow23 THEN <<q, r, e>>
    ELSE IF 2 * r >= b THEN DivBits(2 * q + 1, 2 * r - b, b, e - 1)
         ELSE DivBits(2 * q, 2 * r, b, e - 1)

\* Round to nearest, ties to even, on the remainder r of the division by b.
RoundNearestEven(q, r, b, e) ==
    LET up == (2 * r > b) \/ (2 * r = b /\ q % 2 = 1)
        q1 == IF up THEN q + 1 ELSE q
    IN  IF q1 = Pow24 THEN <<Pow23, e + 1>> ELSE <<q1, e>>

\* fl(a / b) for integers 0 <= a < 2^24, 0 < b < 2^24.
F32DivInt(a, b) ==
    IF a = 0 THEN <<0, 0>>
    ELSE LET d == DivBits(a \div b, a % b, b, 0)
         IN  RoundNearestEven(d[1], d[2], b, d[3])

\* fl(a / y) for an integer a and a positive f32 y.
F32Div(a, y) ==
    LET q == F32DivInt(a, y[1]) IN
    IF q[1] = 0 THEN q ELSE <<q[1], q[2] - y[2]>>

\* y * 2.0 (exact).
F32Mul2(y) == <<y[1], y[2] + 1>>

\* `as u32` of a non-negative f32: truncation.
F32ToU32(y) ==
    IF y[1] = 0 THEN 0
    ELSE IF y[2] >= 0 THEN y[1] * Pow2(y[2])
    ELSE IF y[2] <= -24 THEN 0
    ELSE y[1] \div Pow2(-y[2])

--------------------------------------------------------------------------
(* Images.  An image is its size and a luminance per pixel; the pixels are *)
(* given by a pattern: "solid" (all g), "vsplit" (left half g, right half  *)
(* 255 - g), "hsplit" (top half g, bottom half 255 - g).                   *)

Grays == 0..255

Pixel(im, x, y) ==
    CASE im.kind = "solid"  -> im.g
      [] im.kind = "vsplit" -> IF 2 * x < im.w THEN im.g ELSE 255 - im.g
      [] im.kind = "hsplit" -> IF 2 * y < im.h THEN im.g ELSE 255 - im.g

\* FilterType::Nearest: the source index sampled for output index o.
Nearest(n_out, n_in, o) ==
    LET s == ((2 * o + 1) * n_in) \div (2 * n_out)
    IN  IF s > n_in - 1 THEN n_in - 1 ELSE s

\* img.resize_exact(w, h, Nearest).to_luma8(): the pixel at (x, y).
ResizedPixel(im, w, h, x, y) ==
    Pixel(im, Nearest(w, im.w, x), Nearest(h, im.h, y))

\* ar = img.width() as f32 / img.height() as f32
AspectRatio(im) == F32DivInt(im.w, im.h)

\* rows = (cols as f32 / (ar * line_height)) as u32
Rows(im, cols) == F32ToU32(F32Div(cols, F32Mul2(AspectRatio(im))))

--------------------------------------------------------------------------
(* paint_values *)

InvertMut(invert, v) == 255 - v

\* v = if invert { 255 - v } else { v }
Invert(invert, v) == IF invert THEN 255 - v ELSE v

\* (palette.len() as f32 * (v as f32 / 256.0)) as usize.  v / 256 is exact
\* in f32 and so is the product (below 2^24), hence the integer division.
BucketIndex(palette, v) == (StrLen(palette) * v) \div 256

None == -1

\* palette.chars().nth(n): Some(character), or None.
Nth(palette, n) == IF n < CharCount(palette) THEN palette[n + 1] ELSE None

\* The closure of the map: the character of the k-th pixel (k from 0).
ValueChar(im, a, k) ==
    LET x == k % a.cols
        y == k \div a.cols
        v == Invert(a.invert, ResizedPixel(im, a.cols, Rows(im, a.cols), x, y))
    IN  Nth(a.palette, BucketIndex(a.palette, v))

\* The whole function: the Vec<char>, and whether an unwrap() panicked.
PaintValues(im, a) ==
    LET n == a.cols * Rows(im, a.cols)
        cells == [k \in 1..n |-> ValueChar(im, a, k - 1)]
    IN  [panic |-> \E k \in 1..n : cells[k] = None, cells |-> cells]

--------------------------------------------------------------------------
(* paint: the call of the painter, then the String with its line breaks *)

RECURSIVE Assemble(_, _, _)
Assemble(cm, cols, k) ==
    IF k = 0 THEN <<>>
    ELSE LET head == Append(Assemble(cm, cols, k - 1), cm[k])
         IN  IF k % cols = 0 THEN Append(head, Newline) ELSE head

CallPaintValues(p) ==
    /\ pc[p] = "start"
    /\ args[p].mode = "values"
    /\ LET cm == PaintValues(img[p], args[p]) IN
         IF cm.panic
         THEN /\ pc' = [pc EXCEPT ![p] = "panic"]
              /\ UNCHANGED char_matrix
         ELSE /\ pc' = [pc EXCEPT ![p] = "painted"]
              /\ char_matrix' = [char_matrix EXCEPT ![p] = cm.cells]
    /\ UNCHANGED <<args, img, font, disk, char_img_cache, char_imgs, opened,
                   tile_i, result, writes>>

\* for (i, c) in char_matrix ... (i + 1) % args.cols: a panic on cols = 0
BuildResult(p) ==
    /\ pc[p] = "painted"
    /\ IF args[p].cols = 0 /\ Len(char_matrix[p]) > 0
       THEN /\ pc' = [pc EXCEPT ![p] = "panic"]
            /\ UNCHANGED result
       ELSE /\ pc' = [pc EXCEPT ![p] = "done"]
            /\ result' = [result EXCEPT ![p] =
                   Assemble(char_matrix[p], args[p].cols, Len(char_matrix[p]))]
    /\ UNCHANGED <<args, img, font, disk, char_img_cache, char_imgs, opened,
                   tile_i, char_matrix, writes>>

--------------------------------------------------------------------------
(* Glyph bitmaps.  A tile_w x tile_h bitmap is a pattern: "blank" (all      *)
(* 255, what a space or a character the font lacks draws), "top" (rows     *)
(* 0..9 black), "low" (rows 18..19 black), "left" (columns 0..4 black).    *)

Patterns == {"blank", "top", "low", "left"}

GlyphPixel(b, x, y) ==
    CASE b = "blank" -> 255
      [] b = "top"   -> IF y < 10 THEN 0 ELSE 255
      [] b = "low"   -> IF y >= 18 THEN 0 ELSE 255
      [] b = "left"  -> IF x < 5 THEN 0 ELSE 255

\* GrayImage::new + fill(255) + draw_text_mut: what the font draws for c.
Rasterize(c) == font[c]

--------------------------------------------------------------------------
(* The disk tier: cache/<hash of (c, tile_w, tile_h)>.png.  tile_w and     *)
(* tile_h never vary, so the key is the character.  A file is absent,      *)
(* partly written (created or truncated by `by`, not yet written through)  *)
(* or complete with the bitmap `bits`.                                     *)

NoFile == [st |-> "nofile", bits |-> "", by |-> 0]
PartialFile(p) == [st |-> "partial", bits |-> "", by |-> p]
CompleteFile(b) == [st |-> "complete", bits |-> b, by |-> 0]

\* Path::new(&cache_file).exists()
Exists(c) == disk[c].st # "nofile"

chars(p) == args[p].palette

\* The character the closure of generate_char_imgs is at.
CurChar(p) == chars(p)[Len(char_imgs[p]) + 1]

InMemory(p, c) == \E e \in char_img_cache[p] : e[1] = c
FromMemory(p, c) == (CHOOSE e \in char_img_cache[p] : e[1] = c)[2]

--------------------------------------------------------------------------
(* paint_flat: geometry *)

\* w = cols * tile_w
ResizedW(cols) == cols * tile_w

\* h = (w as f32 / ar) as u32
ResizedH(im, cols) == F32ToU32(F32Div(ResizedW(cols), AspectRatio(im)))

Cells(p) == args[p].cols * Rows(img[p], args[p].cols)

Min(a, b) == IF a < b THEN a ELSE b

\* crop_imm(x, y, tile_w, tile_h) of the resized image: the crop's place and
\* size, cut to the image.
Crop(im, cols, i) ==
    LET iw == ResizedW(cols)
        ih == ResizedH(im, cols)
        x == Min((i % cols) * tile_w, iw)
        y == Min(F32ToU32(F32DivInt(i, cols)) * tile_h, ih)
    IN  [x |-> x, y |-> y, w |-> Min(tile_w, iw - x), h |-> Min(tile_h, ih - y)]

SizeMismatchMut(im, cols, i) ==
    LET c == Crop(im, cols, i) IN c.w # tile_w

\* tile.width() != tile_w || tile.height() != tile_h
SizeMismatch(im, cols, i) ==
    LET c == Crop(im, cols, i) IN c.w # tile_w \/ c.h # tile_h

\* tile = img.crop_imm(...).to_luma8() of the resized, then inverted, image:
\* tile[y][x] for a crop of full size.
Tile(im, a, i) ==
    LET c == Crop(im, a.cols, i)
        rw == ResizedW(a.cols)
        rh == ResizedH(im, a.cols)
    IN  [y \in 0..(tile_h - 1) |-> [x \in 0..(tile_w - 1) |->
            Invert(a.invert, ResizedPixel(im, rw, rh, c.x + x, c.y + y))]]

--------------------------------------------------------------------------
(* paint_flat: the score of a glyph against a tile, and the best glyph *)

BestScoreInit == 2147483647

Sq(d) == d * d

RECURSIVE SumRow(_, _, _, _)
SumRow(tile, b, y, x) ==
    IF x < 0 THEN 0
    ELSE Sq(tile[y][x] - GlyphPixel(b, x, y)) + SumRow(tile, b, y, x - 1)

RECURSIVE SumRows(_, _, _)
SumRows(tile, b, y) ==
    IF y < 0 THEN 0
    ELSE SumRow(tile, b, y, tile_w - 1) + SumRows(tile, b, y - 1)

\* match_template(char_img, tile, SumOfSquaredErrors): one value, the sum
\* over the tile's pixels; score = that sum as u32.
Score(tile, b) == SumRows(tile, b, tile_h - 1)

BetterMut(score, best_score) == score <= best_score

\* if score < best_score
Better(score, best_score) == score < best_score

\* for (ci, char_img) in char_imgs.iter().enumerate(): <<best, best_score>>
\* after the glyphs 1..ci (best counts from 0).
RECURSIVE BestLoop(_, _, _)
BestLoop(tile, imgs, ci) ==
    IF ci = 0 THEN <<0, BestScoreInit>>
    ELSE LET prev == BestLoop(tile, imgs, ci - 1)
             score == Score(tile, imgs[ci])
         IN  IF Better(score, prev[2]) THEN <<ci - 1, score>> ELSE prev

Best(tile, imgs) == BestLoop(tile, imgs, Len(imgs))[1]

--------------------------------------------------------------------------
(* paint_flat and generate_char_imgs, step by step.  Positions of a        *)
(* process: "start", "lookup" (at the top of the closure for CurChar),     *)
(* "open" (exists() was true), "create" (the glyph is drawn, save() not    *)
(* yet called), "write" (save() has created the file), "tiles" (the loop   *)
(* over the cells), "painted" (back in paint), "done", "panic".            *)

Star == 42           \* '*'

\* Where a process is once generate_char_imgs has collected n bitmaps.
AfterChar(p, n) ==
    IF n < Len(chars(p)) THEN "lookup"
    ELSE IF Cells(p) = 0 THEN "painted" ELSE "tiles"

\* paint_flat up to the call of generate_char_imgs.
CallPaintFlat(p) ==
    /\ pc[p] = "start"
    /\ args[p].mode = "pxmatch"
    /\ char_matrix' = [char_matrix EXCEPT ![p] = [k \in 1..Cells(p) |-> Star]]
    /\ pc' = [pc EXCEPT ![p] = AfterChar(p, 0)]
    /\ UNCHANGED <<args, img, font, disk, char_img_cache, char_imgs, opened,
                   tile_i, result, writes>>

\* The memory tier holds the character: return img.clone().
MemoryHit(p) ==
    /\ pc[p] = "lookup"
    /\ InMemory(p, CurChar(p))
    /\ char_imgs' = [char_imgs EXCEPT ![p] = Append(@, FromMemory(p, CurChar(p)))]
    /\ pc' = [pc EXCEPT ![p] = AfterChar(p, Len(char_imgs[p]) + 1)]
    /\ UNCHANGED <<args, img, font, disk, char_img_cache, opened, tile_i,
                   char_matrix, result, writes>>

ExistsCheckMut(p) ==
    /\ pc[p] = "lookup"
    /\ ~InMemory(p, CurChar(p))
    /\ pc' = [pc EXCEPT ![p] = "create"]
    /\ UNCHANGED <<args, img, font, disk, char_img_cache, char_imgs, opened,
                   tile_i, char_matrix, result, writes>>

\* A memory miss: if Path::new(&cache_file).exists() { open } else { draw }.
ExistsCheck(p) ==
    /\ pc[p] = "lookup"
    /\ ~InMemory(p, CurChar(p))
    /\ pc' = [pc EXCEPT ![p] = IF Exists(CurChar(p)) THEN "open" ELSE "create"]
    /\ UNCHANGED <<args, img, font, disk, char_img_cache, char_imgs, opened,
                   tile_i, char_matrix, result, writes>>

\* return image::open(cache_file).unwrap().to_luma8(): a file that is not
\* written through does not decode, and unwrap() panics.  The bitmap is
\* returned without being inserted into the memory tier.
OpenFile(p) ==
    /\ pc[p] = "open"
    /\ IF disk[CurChar(p)].st = "complete"
       THEN /\ opened' = [opened EXCEPT ![p] = "ok"]
            /\ char_imgs' = [char_imgs EXCEPT ![p] = Append(@, disk[CurChar(p)].bits)]
            /\ pc' = [pc EXCEPT ![p] = AfterChar(p, Len(char_imgs[p]) + 1)]
       ELSE /\ opened' = [opened EXCEPT ![p] = "err"]
            /\ pc' = [pc EXCEPT ![p] = "panic"]
            /\ UNCHANGED char_imgs
    /\ UNCHANGED <<args, img, font, disk, char_img_cache, tile_i, char_matrix,
                   result, writes>>

\* char_img.save(&cache_file): File::create makes or truncates the file.
SaveCreate(p) ==
    /\ pc[p] = "create"
    /\ disk' = [disk EXCEPT ![CurChar(p)] = PartialFile(p)]
    /\ writes' = [writes EXCEPT ![CurChar(p)] = @ + 1]
    /\ pc' = [pc EXCEPT ![p] = "write"]
    /\ UNCHANGED <<args, img, font, char_img_cache, char_imgs, opened, tile_i,
                   char_matrix, result>>

\* save() has written the PNG through; char_img_cache.insert; char_img.
\* The file is whole once the process that truncated it last is through.
SaveFinish(p) ==
    /\ pc[p] = "write"
    /\ LET c == CurChar(p) IN
         /\ disk' = [disk EXCEPT ![c] =
                IF @.st = "partial" /\ @.by # p THEN @ ELSE CompleteFile(Rasterize(c))]
         /\ char_img_cache' = [char_img_cache EXCEPT ![p] =
                {e \in @ : e[1] # c} \cup {<<c, Rasterize(c)>>}]
         /\ char_imgs' = [char_imgs EXCEPT ![p] = Append(@, Rasterize(c))]
    /\ pc' = [pc EXCEPT ![p] = AfterChar(p, Len(char_imgs[p]) + 1)]
    /\ UNCHANGED <<args, img, font, opened, tile_i, char_matrix, result, writes>>

\* One pass of for i in 0..(cols * rows): the sentinel, or the best glyph's
\* character; chars[best] panics on an empty palette.
TileStep(p) ==
    /\ pc[p] = "tiles"
    /\ LET i == tile_i[p]
           last == (i + 1 = Cells(p))
       IN
         IF SizeMismatch(img[p], args[p].cols, i)
         THEN /\ char_matrix' = [char_matrix EXCEPT ![p][i + 1] = Sentinel]
              /\ tile_i' = [tile_i EXCEPT ![p] = i + 1]
              /\ pc' = [pc EXCEPT ![p] = IF last THEN "painted" ELSE "tiles"]
         ELSE IF Len(chars(p)) = 0
         THEN /\ pc' = [pc EXCEPT ![p] = "panic"]
              /\ UNCHANGED <<char_matrix, tile_i>>
         ELSE /\ char_matrix' = [char_matrix EXCEPT ![p][i + 1] =
                     chars(p)[Best(Tile(img[p], args[p], i), char_imgs[p]) + 1]]
              /\ tile_i' = [tile_i EXCEPT ![p] = i + 1]
              /\ pc' = [pc EXCEPT ![p] = IF last THEN "painted" ELSE "tiles"]
    /\ UNCHANGED <<args, img, font, disk, char_img_cache, char_imgs, opened,
                   result, writes>>

--------------------------------------------------------------------------
(* Inputs *)

Alphabet == {32, 64, 95}

\* A font in which ' ' is blank, '@' reaches over the upper half and '_'
\* lies at the bottom.
FontA == [c \in Alphabet |-> CASE c = 32 -> "blank" [] c = 64 -> "top" [] c = 95 -> "low"]

\* Every font that draws nothing for a space.
Fonts == {f \in [Alphabet -> Patterns] : f[32] = "blank"}

ScenarioImg == [w |-> 10, h |-> 10, kind |-> "solid", g |-> 0]
ScenarioArgs == [mode |-> "values", cols |-> 2, invert |-> FALSE, palette |-> PALETTE[1]]

ValuesImages ==
    {[w |-> 1, h |-> 1, kind |-> "solid", g |-> g] : g \in Grays}
    \cup {[w |-> w, h |-> h, kind |-> k, g |-> g] :
            w \in 1..MaxValDim, h \in 1..MaxValDim, k \in {"solid", "vsplit"},
            g \in {0, 1, 100, 255}}
    \cup {ScenarioImg}

ValuesPalettes == {PALETTE[k] : k \in 1..4} \cup {<<>>}

FlatImages ==
    {[w |-> w, h |-> h, kind |-> "solid", g |-> 255] :
        w \in 1..MaxImgW, h \in 1..MaxImgH}

FlatPalettes == {<<64, 95, 64>>, <<32, 64>>, <<>>}

\* 2x4 images: a row of tiles per column asked for.
MatchImages ==
    {[w |-> 2, h |-> 4, kind |-> k, g |-> 0] : k \in {"solid", "hsplit", "vsplit"}}
    \cup {[w |-> 2, h |-> 4, kind |-> "solid", g |-> 128]}

MatchPalettes == {<<32, 64>>, <<64, 95, 32>>, <<64, 32, 64>>}

CacheImg == [w |-> 1, h |-> 2, kind |-> "solid", g |-> 255]
CachePalettes == {<<64>>, <<32, 64>>, <<64, 32, 64>>}

OffArgs == [mode |-> "off", cols |-> 0, invert |-> FALSE, palette |-> <<>>]

InitCommon ==
    /\ disk = [c \in Alphabet |-> NoFile]
    /\ writes = [c \in Alphabet |-> 0]
    /\ char_img_cache = [p \in Procs |-> {}]
    /\ char_imgs = [p \in Procs |-> <<>>]
    /\ opened = [p \in Procs |-> "none"]
    /\ tile_i = [p \in Procs |-> 0]
    /\ char_matrix = [p \in Procs |-> <<>>]
    /\ result = [p \in Procs |-> <<>>]

\* One process paints the image im with the arguments a.
InitOne(a, im) ==
    /\ args = [p \in Procs |-> IF p = 1 THEN a ELSE OffArgs]
    /\ img = [p \in Procs |-> IF p = 1 THEN im ELSE CacheImg]
    /\ pc = [p \in Procs |-> IF p = 1 THEN "start" ELSE "off"]
    /\ InitCommon

--------------------------------------------------------------------------
(* Values runs: every preset palette, every luminance *)

InitValues ==
    /\ font = FontA
    /\ \E a \in [mode : {"values"}, cols : 0..MaxValCols, invert : BOOLEAN,
                 palette : ValuesPalettes], im \in ValuesImages : InitOne(a, im)

NextValues == \E p \in Procs : CallPaintValues(p) \/ BuildResult(p)

SpecValues == InitValues /\ [][NextValues]_vars

--------------------------------------------------------------------------
(* Template-matching runs of one process *)

PaintFlatStep(p) ==
    \/ CallPaintFlat(p)
    \/ MemoryHit(p)
    \/ ExistsCheck(p)
    \/ OpenFile(p)
    \/ SaveCreate(p)
    \/ SaveFinish(p)
    \/ TileStep(p)
    \/ BuildResult(p)

\* Every geometry: image sizes and column counts.
InitFlat ==
    /\ font = FontA
    /\ \E a \in [mode : {"pxmatch"}, cols : 0..MaxCols, invert : BOOLEAN,
                 palette : FlatPalettes], im \in FlatImages : InitOne(a, im)

\* Every font and tile content on small images.
InitMatch ==
    /\ font \in Fonts
    /\ \E a \in [mode : {"pxmatch"}, cols : 1..MaxMatchCols, invert : BOOLEAN,
                 palette : MatchPalettes], im \in MatchImages : InitOne(a, im)

\* A single process never finds a file on disk: no OpenFile.
NextFlat ==
    \E p \in Procs :
        \/ CallPaintFlat(p)
        \/ MemoryHit(p)
        \/ ExistsCheck(p)
        \/ SaveCreate(p)
        \/ SaveFinish(p)
        \/ TileStep(p)
        \/ BuildResult(p)

SpecFlat == InitFlat /\ [][NextFlat]_vars

SpecMatch == InitMatch /\ [][NextFlat]_vars

--------------------------------------------------------------------------
(* Processes sharing the directory cache/ *)

InitCache ==
    /\ font = FontA
    /\ args \in [Procs -> [mode : {"pxmatch"}, cols : {1}, invert : {FALSE},
                           palette : CachePalettes]]
    /\ img = [p \in Procs |-> CacheImg]
    /\ pc = [p \in Procs |-> "start"]
    /\ InitCommon

\* Concurrent processes: any interleaving of their steps.
Next == \E p \in Procs : PaintFlatStep(p)

Spec == InitCache /\ [][Next]_vars

\* One conversion after the other: a process starts once the ones before
\* it have ended.
Ended(p) == pc[p] \in {"done", "panic", "off"}
Turn(p) == \A q \in Procs : q < p => Ended(q)

NextSeq == \E p \in Procs : Turn(p) /\ PaintFlatStep(p)

SpecSeq == InitCache /\ [][NextSeq]_vars

--------------------------------------------------------------------------
(* Properties *)

Returned(p) == pc[p] \in {"painted", "done"}
PaintEnded(p) == pc[p] \in {"painted", "done", "panic"}
IsValues(p) == args[p].mode = "values"
IsFlat(p) == args[p].mode = "pxmatch"

\* The luminance sample of cell k (from 1) in values mode, after inversion.
Sample(p, k) ==
    LET cols == args[p].cols
    IN  Invert(args[p].invert,
               ResizedPixel(img[p], cols, Rows(img[p], cols),
                            (k - 1) % cols, (k - 1) \div cols))

\* floor(n * v / 256) clamped to [0, n - 1].
ClampedBucket(n, v) ==
    LET b == (n * v) \div 256
    IN  IF b > n - 1 THEN n - 1 ELSE IF b < 0 THEN 0 ELSE b

\* C1: in values mode, for cols > 0 and a non-empty palette, paint_values
\* returns exactly cols x rows characters, each a member of the palette.
C1_ValuesGridInPalette ==
    \A p \in Procs :
        (IsValues(p) /\ args[p].cols > 0 /\ Len(args[p].palette) > 0 /\ PaintEnded(p))
        => /\ pc[p] # "panic"
           /\ Len(char_matrix[p]) = args[p].cols * Rows(img[p], args[p].cols)
           /\ \A k \in 1..Len(char_matrix[p]) :
                  char_matrix[p][k] \in CharsOf(args[p].palette)

\* C2: in values mode the character of every cell is the palette character
\* at index floor(n * v / 256), clamped to [0, n - 1], n the number of
\* characters of the palette and v the cell's sample.
C2_BucketByCharCount ==
    \A p \in Procs :
        (IsValues(p) /\ Returned(p))
        => \A k \in 1..Len(char_matrix[p]) :
               char_matrix[p][k] =
                   args[p].palette[ClampedBucket(CharCount(args[p].palette),
                                                 Sample(p, k)) + 1]

Scenario(p) == args[p] = ScenarioArgs /\ img[p] = ScenarioImg /\ pc[p] = "done"

\* The String of a grid of `rows` rows of two cells, each holding c.
TwoColumnsOf(c, rows) ==
    [k \in 1..(3 * rows) |-> IF k % 3 = 0 THEN Newline ELSE c]

\* C3 as stated: the solid black 10x10 image, cols = 2, palette " .-=+*#%@",
\* no inversion, yields '@' (the last palette character) in every cell, two
\* cells per row.
C3_BlackSquareAllDensest ==
    \A p \in Procs :
        Scenario(p)
        => /\ Len(char_matrix[p]) = 2 * Rows(ScenarioImg, 2)
           /\ result[p] = TwoColumnsOf(PALETTE[1][9], Rows(ScenarioImg, 2))

\* C3 as amended: the same conversion yields ' ' (the first palette
\* character) in every cell, two cells per row, and no sentinel.
C3_BlackSquareAllFirst ==
    \A p \in Procs :
        Scenario(p)
        => /\ Len(char_matrix[p]) = 2 * Rows(ScenarioImg, 2)
           /\ \A k \in 1..Len(char_matrix[p]) : char_matrix[p][k] # Sentinel
           /\ result[p] = TwoColumnsOf(PALETTE[1][1], Rows(ScenarioImg, 2))

C3_Witness ==
    \E p \in Procs : Scenario(p) /\ result[p] = <<32, 32, Newline>>

\* The score of every palette character's glyph against the tile of cell i.
Scores(p, i) ==
    LET tile == Tile(img[p], args[p], i)
    IN  [j \in 1..Len(chars(p)) |-> Score(tile, Rasterize(chars(p)[j]))]

\* j has the least score, and no earlier index has it.
EarliestMin(s, j) ==
    /\ \A j2 \in DOMAIN s : s[j] <= s[j2]
    /\ \A j2 \in DOMAIN s : j2 < j => s[j2] > s[j]

\* C4: in template matching every cell of full size gets the palette
\* character whose glyph has the least sum of squared differences against
\* the tile, and among equal least scores the one of the smallest index;
\* a painted cell keeps its character.
C4_ArgminEarliest ==
    [][\A p \in Procs :
          IsFlat(p) =>
              /\ \A k \in 1..tile_i[p] : char_matrix'[p][k] = char_matrix[p][k]
              /\ (tile_i'[p] = tile_i[p] + 1
                  /\ ~SizeMismatch(img[p], args[p].cols, tile_i[p]))
                 => LET s == Scores(p, tile_i[p])
                    IN  \E j \in DOMAIN s :
                            /\ EarliestMin(s, j)
                            /\ char_matrix'[p][tile_i[p] + 1] = chars(p)[j]]_vars

\* A painted cell for which two different characters tie at the least score.
C4_Witness ==
    \E p \in Procs :
        /\ IsFlat(p)
        /\ \E k \in 1..tile_i[p] :
              /\ ~SizeMismatch(img[p], args[p].cols, k - 1)
              /\ LET s == Scores(p, k - 1)
                 IN  \E j1, j2 \in DOMAIN s :
                        /\ j1 < j2
                        /\ chars(p)[j1] # chars(p)[j2]
                        /\ EarliestMin(s, j1)
                        /\ s[j2] = s[j1]
                        /\ char_matrix[p][k] = chars(p)[j1]

InvalidInput(p) ==
    \/ args[p].cols = 0
    \/ Rows(img[p], args[p].cols) < 1
    \/ Len(args[p].palette) = 0

\* C5: with cols = 0, a derived row count below 1 or an empty palette, the
\* conversion does not return a grid.
C5_InvalidInputRejected ==
    \A p \in Procs :
        (pc[p] # "off" /\ InvalidInput(p)) => ~Returned(p)

\* C6: a cache file that does not decode never aborts the conversion.
C6_UndecodableFileIsAMiss ==
    \A p \in Procs : ~(opened[p] = "err" /\ pc[p] = "panic")

\* The crop of cell i reaches beyond the resized image.
BoundaryCell(p, i) ==
    LET cols == args[p].cols
    IN  \/ ((i % cols) + 1) * tile_w > ResizedW(cols)
        \/ ((i \div cols) + 1) * tile_h > ResizedH(img[p], cols)

\* C7 as stated: a cell holds '_' only if its crop is smaller than the
\* tile, and every other cell holds a palette character.
C7_SentinelOnlyAtBoundary ==
    \A p \in Procs :
        (IsFlat(p) /\ args[p].cols > 0) =>
            \A k \in 1..tile_i[p] :
                /\ char_matrix[p][k] = Sentinel => BoundaryCell(p, k - 1)
                /\ ~BoundaryCell(p, k - 1) => char_matrix[p][k] \in CharsOf(chars(p))

\* C7 as amended: a cell gets a character outside the palette only if its
\* crop is smaller than the tile, and it is then '_'; every cell whose crop
\* is smaller gets '_'; every other cell gets a palette character (which
\* is '_' when the palette has it and its glyph matches best); a painted
\* cell keeps its character.
C7_OutsidePaletteOnlyAtBoundary ==
    [][\A p \in Procs :
          (IsFlat(p) /\ args[p].cols > 0) =>
              /\ \A k \in 1..tile_i[p] : char_matrix'[p][k] = char_matrix[p][k]
              /\ tile_i'[p] = tile_i[p] + 1
                 => LET c == char_matrix'[p][tile_i[p] + 1]
                        boundary == BoundaryCell(p, tile_i[p])
                    IN  /\ c \notin CharsOf(chars(p)) => boundary
                        /\ boundary => c = Sentinel
                        /\ ~boundary => c \in CharsOf(chars(p))]_vars

\* A finished grid whose resized height is no multiple of tile_h, with a
\* sentinel in a boundary cell and a palette character in a full cell.
C7_Witness ==
    \E p \in Procs :
        /\ IsFlat(p) /\ pc[p] = "done"
        /\ ResizedH(img[p], args[p].cols) % tile_h # 0
        /\ Sentinel \notin CharsOf(chars(p))
        /\ \E k1, k2 \in 1..Len(char_matrix[p]) :
              /\ BoundaryCell(p, k1 - 1) /\ char_matrix[p][k1] = Sentinel
              /\ ~BoundaryCell(p, k2 - 1) /\ char_matrix[p][k2] \in CharsOf(chars(p))

C9_LookupFillsMemory ==
    \A p \in Procs :
        \A j \in 1..Len(char_imgs[p]) : InMemory(p, chars(p)[j])

\* C10: no process reads a cache file that is not written through.
C10_NoPartialRead ==
    \A p \in Procs : opened[p] # "err"

==========================================================================
